---- MODULE Spec2Model ----
(***************************************************************************)
(* dbexport: the backend batch iterators (src/sources/mysql/mod.rs,        *)
(* src/sources/postgres/mod.rs) and the schema tree of the schema command  *)
(* (src/commands/schema.rs), as state machines.                            *)
(*                                                                         *)
(* Rust's Option<T> is a sequence of length at most one: None is <<>>,     *)
(* Some(x) is <<x>>.  Every payload of a native or canonical value is a    *)
(* sequence of integers, so that any two values can be compared.           *)
(***************************************************************************)
EXTENDS Integers, Sequences, FiniteSets

VARIABLES
    backend,        \* "mysql" | "postgres": which DataSource is driven
    options,        \* the source options: [init, query, count]
    pc,             \* position of the driver: start, connected, iterating, exited, ...
    exit_code,      \* process exit status once pc = "exited"
    stderr,         \* what was reported to the user: a sequence of reports
    sent,           \* statements sent to the server, in order
    native_columns, \* column metadata of the open result set
    source,         \* the native rows of the result set, as the server holds them
    results,        \* QueryResult / RowIter: the rows the cursor has not yet read
    batch_size,     \* MysqlSourceBatchIterator.batch_size / PostgresSourceBatchIterator.batch_size
    count,          \* MysqlSourceBatchIterator.count : Option<u64>
    columns,        \* PostgresSourceBatchIterator.columns : Vec<postgres::Column>
    returns,        \* every value next() has returned so far, in call order
    dbitems,        \* schema command: the tree DBItems built from the metadata
    query,          \* schema command: the query string handed to subtree_matching_query
    is_regex,       \* schema command: SchemaCommand.regex
    once,           \* subtree_matching_query(dbitems)
    twice,          \* subtree_matching_query(once)
    printed,        \* lines written by DBItems::print
    metadata,       \* schema command: the rows of the metadata query, in the order received
    command_query   \* schema command: SchemaCommand.query : Option<String>

vars == <<backend, options, pc, exit_code, stderr, sent, native_columns, source,
          results, batch_size, count, columns, returns,
          dbitems, query, is_regex, once, twice, printed, metadata, command_query>>

exportVars == <<backend, options, exit_code, stderr, sent, native_columns, source,
                results, batch_size, count, columns, returns>>

schemaVars == <<dbitems, query, is_regex, once, twice, printed, metadata, command_query>>

----------------------------------------------------------------------------
(* Bounds of the model *)

MaxRows == 2

MaxBatch == 2

MaxInit == 2

----------------------------------------------------------------------------
(* Option, and small sequence helpers *)

None == <<>>

Some(x) == <<x>>

Min(a, b) == IF a <= b THEN a ELSE b

\* all sequences over S of length at most n
SeqsUpTo(S, n) == UNION {[1..k -> S] : k \in 0..n}

RECURSIVE Flatten(_)
Flatten(ss) == IF ss = <<>> THEN <<>> ELSE Head(ss) \o Flatten(Tail(ss))

----------------------------------------------------------------------------
(* Process termination *)

\* std::process::exit(1)
ExitFailure == 1

\* the status of a Rust process that ends by an unwinding panic
PanicExitCode == 101

\* crate::utils::report_query_error(query, error): the report names the
\* statement text and the backend's error detail
ReportQueryError(q, e) == [kind |-> "query_error", text |-> q, detail |-> e]

\* the message of a panic (unwrap() on Err(e), or panic!(..)): the Debug
\* form of the error, without the statement text
PanicMessage(e) == [kind |-> "panic", text |-> <<>>, detail |-> e]

----------------------------------------------------------------------------
(* Canonical values (crate::definitions::Value) and native MySQL values *)

Val(tag, p) == [tag |-> tag, v |-> p]

\* the outcome of a conversion that panics instead of producing a Value
Panic == [tag |-> "PANIC", v |-> <<>>]

ValueTags == {"None", "I32", "I64", "U64", "F32", "F64", "String", "Date", "DateTime", "Time"}

\* mysql::Value
My(kind, p) == [kind |-> kind, p |-> p]

MyNull == My("NULL", <<>>)

\* std::str::from_utf8: whether the bytes are well-formed UTF-8
IsCont(b) == b >= 128 /\ b <= 191

RECURSIVE IsUtf8(_)
IsUtf8(bs) ==
    IF bs = <<>> THEN TRUE
    ELSE LET b == bs[1]
             n == Len(bs)
             rest(k) == SubSeq(bs, k + 1, n)
         IN  IF b <= 127 THEN IsUtf8(rest(1))
             ELSE IF b >= 194 /\ b <= 223
                  THEN n >= 2 /\ IsCont(bs[2]) /\ IsUtf8(rest(2))
             ELSE IF b = 224
                  THEN n >= 3 /\ bs[2] >= 160 /\ bs[2] <= 191 /\ IsCont(bs[3]) /\ IsUtf8(rest(3))
             ELSE IF (b >= 225 /\ b <= 236) \/ b = 238 \/ b = 239
                  THEN n >= 3 /\ IsCont(bs[2]) /\ IsCont(bs[3]) /\ IsUtf8(rest(3))
             ELSE IF b = 237
                  THEN n >= 3 /\ bs[2] >= 128 /\ bs[2] <= 159 /\ IsCont(bs[3]) /\ IsUtf8(rest(3))
             ELSE IF b = 240
                  THEN n >= 4 /\ bs[2] >= 144 /\ bs[2] <= 191 /\ IsCont(bs[3]) /\ IsCont(bs[4])
                       /\ IsUtf8(rest(4))
             ELSE IF b >= 241 /\ b <= 243
                  THEN n >= 4 /\ IsCont(bs[2]) /\ IsCont(bs[3]) /\ IsCont(bs[4]) /\ IsUtf8(rest(4))
             ELSE IF b = 244
                  THEN n >= 4 /\ bs[2] >= 128 /\ bs[2] <= 143 /\ IsCont(bs[3]) /\ IsCont(bs[4])
                       /\ IsUtf8(rest(4))
             ELSE FALSE

\* chrono::NaiveDate::from_ymd panics on a date that does not exist
IsLeap(y) == (y % 4 = 0 /\ y % 100 # 0) \/ y % 400 = 0

DaysIn(y, m) ==
    IF m = 2 THEN (IF IsLeap(y) THEN 29 ELSE 28)
    ELSE IF m \in {4, 6, 9, 11} THEN 30 ELSE 31

ValidYmd(y, m, d) == m >= 1 /\ m <= 12 /\ d >= 1 /\ d <= DaysIn(y, m)

\* chrono::NaiveTime::from_hms panics on an hour, minute or second out of range
ValidHms(h, mi, s) == h >= 0 /\ h < 24 /\ mi >= 0 /\ mi < 60 /\ s >= 0 /\ s < 60

\* a variant that replaces invalid bytes instead of panicking (from_utf8_lossy)
BytesToValueLossy(p) == Val("String", p)

\* mysql_to_row, the arm for mysql::Value::Bytes
BytesToValue(p) == IF IsUtf8(p) THEN Val("String", p) ELSE Panic

\* mysql_to_row, the arm for mysql::Value::Date(year, month, day, hour, minute, second, _)
DateToValue(data_type, p) ==
    LET ymd == ValidYmd(p[1], p[2], p[3])
        hms == ValidHms(p[4], p[5], p[6])
    IN  CASE data_type = "Date" ->
               IF ymd THEN Val("Date", SubSeq(p, 1, 3)) ELSE Panic
          [] data_type = "DateTime" ->
               IF ymd /\ hms THEN Val("DateTime", SubSeq(p, 1, 6)) ELSE Panic
          [] data_type = "Time" ->
               IF hms THEN Val("Time", SubSeq(p, 4, 6)) ELSE Panic
          [] data_type = "Timestamp" ->
               IF ymd /\ hms THEN Val("DateTime", SubSeq(p, 1, 6)) ELSE Panic
          [] OTHER -> Panic

\* mysql_to_row, the arm for mysql::Value::Time(_negative, _day, hour, minute, second, _)
TimeToValue(data_type, p) ==
    IF data_type = "Time"
    THEN (IF ValidHms(p[3], p[4], p[5]) THEN Val("Time", SubSeq(p, 3, 5)) ELSE Panic)
    ELSE Panic

\* mysql_to_row, one iteration of its loop: the Value pushed for one cell
MysqlToValue(data_type, value) ==
    CASE value.kind = "NULL"  -> Val("None", <<>>)
      [] value.kind = "Int"   -> Val("I64", value.p)
      [] value.kind = "UInt"  -> Val("U64", value.p)
      [] value.kind = "Float" -> Val("F64", value.p)
      [] value.kind = "Bytes" -> BytesToValue(value.p)
      [] value.kind = "Date"  -> DateToValue(data_type, value.p)
      [] value.kind = "Time"  -> TimeToValue(data_type, value.p)

\* mysql_to_row: one Value per cell of the native row, in order
MysqlToRow(column_info, mysql_row) ==
    [idx \in 1..Len(mysql_row) |->
        IF mysql_row[idx].kind \in {"Date", "Time"}
        THEN (IF idx <= Len(column_info)
              THEN MysqlToValue(column_info[idx].data_type, mysql_row[idx])
              ELSE Panic)
        ELSE MysqlToValue("", mysql_row[idx])]

RowPanics(row) == \E i \in 1..Len(row) : row[i] = Panic

\* get_column_info, the match on (column_type, UNSIGNED_FLAG)
Unsupported == "Unsupported"

MysqlColumnType(column_type, unsigned) ==
    CASE column_type \in {"MYSQL_TYPE_DECIMAL", "MYSQL_TYPE_NEWDECIMAL"} -> "Decimal"
      [] column_type = "MYSQL_TYPE_TINY" -> IF unsigned THEN "U8" ELSE "I8"
      [] column_type = "MYSQL_TYPE_SHORT" -> IF unsigned THEN "U16" ELSE "I16"
      [] column_type = "MYSQL_TYPE_LONG" -> IF unsigned THEN "U32" ELSE "I32"
      [] column_type = "MYSQL_TYPE_LONGLONG" -> IF unsigned THEN "U64" ELSE "I64"
      [] column_type = "MYSQL_TYPE_INT24" -> IF unsigned THEN "U32" ELSE "I32"
      [] column_type \in {"MYSQL_TYPE_VARCHAR", "MYSQL_TYPE_VAR_STRING", "MYSQL_TYPE_STRING"}
           -> "String"
      [] column_type = "MYSQL_TYPE_FLOAT" -> "F32"
      [] column_type = "MYSQL_TYPE_DOUBLE" -> "F64"
      [] column_type = "MYSQL_TYPE_JSON" -> "JSON"
      [] column_type \in {"MYSQL_TYPE_TINY_BLOB", "MYSQL_TYPE_MEDIUM_BLOB",
                          "MYSQL_TYPE_LONG_BLOB", "MYSQL_TYPE_BLOB"} -> "Bytes"
      [] column_type \in {"MYSQL_TYPE_TIMESTAMP", "MYSQL_TYPE_TIMESTAMP2"} -> "Timestamp"
      [] column_type \in {"MYSQL_TYPE_DATE", "MYSQL_TYPE_NEWDATE"} -> "Date"
      [] column_type \in {"MYSQL_TYPE_TIME", "MYSQL_TYPE_TIME2"} -> "Time"
      [] column_type \in {"MYSQL_TYPE_DATETIME", "MYSQL_TYPE_DATETIME2"} -> "DateTime"
      [] column_type = "MYSQL_TYPE_YEAR" -> "I64"
      [] OTHER -> Unsupported

\* MysqlSourceBatchIterator::get_column_info over the columns of the result set
MysqlColumnInfo(cols) ==
    [i \in 1..Len(cols) |->
        [name |-> cols[i].name,
         data_type |-> MysqlColumnType(cols[i].column_type, cols[i].unsigned)]]

ColumnInfoPanics(ci) == \E i \in 1..Len(ci) : ci[i].data_type = Unsupported

----------------------------------------------------------------------------
(* Native Postgres values *)

\* the match on (type_.kind(), type_.name()) that get_column_info, next and
\* postgres_to_row share: the canonical type of a column, or the panic arm
PostgresColumnType(kind, name) ==
    IF kind # "Simple" THEN Unsupported
    ELSE CASE name = "int4"   -> "I32"
           [] name = "int8"   -> "I64"
           [] name = "float4" -> "F32"
           [] name = "float8" -> "F64"
           [] name = "text"   -> "String"
           [] OTHER -> Unsupported

\* postgres::Row::get::<_, T>(idx) for a T that is not an Option: it panics
\* on an SQL NULL, otherwise it yields the cell's value
PostgresGet(data_type, cell) ==
    IF cell.kind = "NULL" THEN Panic ELSE Val(data_type, cell.p)

\* PostgresSourceBatchIterator::next, the closure mapping one postgres row
PostgresToRow(row_columns, postgres_row) ==
    [idx \in 1..Len(row_columns) |->
        LET data_type == PostgresColumnType(row_columns[idx].kind, row_columns[idx].type_name)
        IN  IF data_type = Unsupported \/ idx > Len(postgres_row)
            THEN Panic
            ELSE PostgresGet(data_type, postgres_row[idx])]

\* PostgresSourceBatchIterator::get_column_info over self.columns
PostgresColumnInfo(cols) ==
    [i \in 1..Len(cols) |->
        [name |-> cols[i].name,
         data_type |-> PostgresColumnType(cols[i].kind, cols[i].type_name)]]

\* PostgresSourceConnection::batch_iterator: the columns field it stores
PostgresIteratorColumns(result_columns) == <<>>

----------------------------------------------------------------------------
(* What a server can answer: the result sets the model draws from *)

MyCol(name, column_type, unsigned) ==
    [name |-> name, column_type |-> column_type, unsigned |-> unsigned]

\* the cells a MySQL server sends (binary protocol) for a column of a type
MyWire(col) ==
    LET t == col.column_type
    IN  {MyNull} \cup
        (CASE t \in {"MYSQL_TYPE_TINY", "MYSQL_TYPE_YEAR"} ->
                {My("Int", <<1>>), My("Int", <<2>>)}
           [] t = "MYSQL_TYPE_LONGLONG" ->
                IF col.unsigned THEN {My("UInt", <<1>>), My("UInt", <<2>>)}
                ELSE {My("Int", <<-1>>), My("Int", <<2>>)}
           [] t = "MYSQL_TYPE_DOUBLE" -> {My("Float", <<15>>)}
           [] t = "MYSQL_TYPE_VAR_STRING" ->
                {My("Bytes", <<97>>), My("Bytes", <<195, 169>>), My("Bytes", <<195>>)}
           [] t = "MYSQL_TYPE_BLOB" -> {My("Bytes", <<98>>), My("Bytes", <<255>>)}
           [] t = "MYSQL_TYPE_BIT" -> {My("Bytes", <<1>>)}
           [] t = "MYSQL_TYPE_DATE" ->
                {My("Date", <<2020, 2, 29, 0, 0, 0, 0>>), My("Date", <<0, 0, 0, 0, 0, 0, 0>>)}
           [] t = "MYSQL_TYPE_DATETIME" -> {My("Date", <<2021, 1, 2, 3, 4, 5, 0>>)}
           [] t = "MYSQL_TYPE_TIMESTAMP" -> {My("Date", <<2022, 12, 31, 23, 59, 59, 0>>)}
           [] t = "MYSQL_TYPE_TIME" ->
                {My("Time", <<0, 0, 1, 2, 3, 0>>), My("Time", <<1, 0, 1, 2, 3, 0>>)}
           [] OTHER -> {})

MySingleColumns ==
    {MyCol("c1", t, FALSE) :
        t \in {"MYSQL_TYPE_TINY", "MYSQL_TYPE_LONGLONG", "MYSQL_TYPE_DOUBLE",
               "MYSQL_TYPE_VAR_STRING", "MYSQL_TYPE_BLOB", "MYSQL_TYPE_BIT",
               "MYSQL_TYPE_DATE", "MYSQL_TYPE_DATETIME", "MYSQL_TYPE_TIMESTAMP",
               "MYSQL_TYPE_TIME", "MYSQL_TYPE_YEAR"}}
    \cup {MyCol("c1", "MYSQL_TYPE_TINY", TRUE), MyCol("c1", "MYSQL_TYPE_LONGLONG", TRUE)}

MyColumnLists ==
    {<<>>} \cup {<<c>> : c \in MySingleColumns}
    \cup {<<MyCol("id", "MYSQL_TYPE_LONGLONG", FALSE), MyCol("name", "MYSQL_TYPE_VAR_STRING", FALSE)>>,
          <<MyCol("id", "MYSQL_TYPE_TINY", FALSE), MyCol("at", "MYSQL_TYPE_TIME", FALSE)>>}

PgCol(name, kind, type_name) == [name |-> name, kind |-> kind, type_name |-> type_name]

PgCell(kind, p) == [kind |-> kind, p |-> p]

\* the cells a Postgres server sends for a column of a type
PgWire(col) ==
    {PgCell("NULL", <<>>)} \cup
    (IF col.type_name = "text" THEN {PgCell("Val", <<97>>), PgCell("Val", <<98>>)}
     ELSE {PgCell("Val", <<1>>), PgCell("Val", <<2>>)})

PgSingleColumns ==
    {PgCol("c1", "Simple", t) : t \in {"int4", "int8", "float4", "float8", "text", "bool"}}
    \cup {PgCol("c1", "Array", "_int4")}

PgColumnLists ==
    {<<>>} \cup {<<c>> : c \in PgSingleColumns}
    \cup {<<PgCol("id", "Simple", "int8"), PgCol("name", "Simple", "text")>>}

\* the rows a server can hold for a list of columns: each cell drawn from
\* what the column's type allows
Wire(b, col) == IF b = "mysql" THEN MyWire(col) ELSE PgWire(col)

RowsOf(b, cols) ==
    {r \in [1..Len(cols) -> UNION {Wire(b, cols[i]) : i \in 1..Len(cols)}] :
        \A i \in 1..Len(cols) : r[i] \in Wire(b, cols[i])}

ResultSets(b) ==
    UNION {{[columns |-> cols, rows |-> rows] :
                rows \in SeqsUpTo(RowsOf(b, cols), MaxRows)} :
           cols \in (IF b = "mysql" THEN MyColumnLists ELSE PgColumnLists)}

----------------------------------------------------------------------------
(* Statement texts: a text is a sequence of tokens *)

QueryTexts == {<<"select * from t">>, <<"select * from missing">>}

InitStatements == {<<"set names utf8">>, <<"set x = 1">>, <<"bogus">>}

\* format!("select count(*) from ({}) q", query)
CountQuery(q) == <<"select count(*) from (">> \o q \o <<") q">>

\* the error details a backend can answer with
BackendErrors == {<<"syntax error">>, <<"no such table">>}

----------------------------------------------------------------------------
(* The process ends *)

\* report_query_error(..); std::process::exit(1)
ExitWithReport(q, e) ==
    /\ stderr' = Append(stderr, ReportQueryError(q, e))
    /\ exit_code' = ExitFailure
    /\ pc' = "exited"

\* unwrap() on an Err, or panic!(..): the process ends by a panic
ExitByPanic(e) ==
    /\ stderr' = Append(stderr, PanicMessage(e))
    /\ exit_code' = PanicExitCode
    /\ pc' = "exited"

----------------------------------------------------------------------------
(* connect *)

\* establish_mysql_connection / establish_postgres_connection, as called by
\* DataSource::connect.  fail = 0: every init statement succeeded; fail = k:
\* the k-th init statement is the first the server refuses; fail = -1: the
\* connection itself could not be opened.
Connect ==
    /\ pc = "start"
    /\ \E fail \in (-1)..Len(options.init), e \in BackendErrors :
         IF fail = 0
         THEN /\ sent' = sent \o options.init
              /\ pc' = "connected"
              /\ UNCHANGED <<stderr, exit_code>>
         ELSE IF fail = -1
         THEN /\ ExitByPanic(e)
              /\ UNCHANGED sent
         ELSE /\ sent' = sent \o SubSeq(options.init, 1, fail)
              /\ IF backend = "mysql"
                 THEN ExitByPanic(e)
                 ELSE ExitWithReport(options.init[fail], e)
    /\ UNCHANGED <<backend, options, native_columns, source, results, batch_size,
                   count, columns, returns>>
    /\ UNCHANGED schemaVars

----------------------------------------------------------------------------
(* batch_iterator *)

\* MysqlSourceConnection::batch_iterator.  The server answers the count
\* query with the number of rows of the user query, or refuses it; it
\* answers the user query with a result set, or refuses it.
MysqlBatchIterator(bs, rs, outcome, e) ==
    LET count_query == CountQuery(options.query)
    IN  /\ backend = "mysql"
        /\ IF options.count /\ outcome = "count_fails"
           THEN /\ sent' = Append(sent, count_query)
                /\ ExitByPanic(e)
                /\ UNCHANGED <<native_columns, source, results, batch_size, count>>
           ELSE /\ sent' = (IF options.count THEN Append(sent, count_query) ELSE sent)
                           \o <<options.query>>
                /\ IF outcome = "query_fails"
                   THEN /\ ExitByPanic(e)
                        /\ UNCHANGED <<native_columns, source, results, batch_size, count>>
                   ELSE /\ count' = (IF options.count THEN Some(Len(rs.rows)) ELSE None)
                        /\ native_columns' = rs.columns
                        /\ source' = rs.rows
                        /\ results' = rs.rows
                        /\ batch_size' = bs
                        /\ pc' = "iterating"
                        /\ UNCHANGED <<stderr, exit_code>>
        /\ UNCHANGED columns

\* PostgresSourceConnection::batch_iterator
PostgresBatchIterator(bs, rs, outcome, e) ==
    /\ backend = "postgres"
    /\ sent' = Append(sent, options.query)
    /\ IF outcome = "query_fails"
       THEN /\ ExitWithReport(options.query, e)
            /\ UNCHANGED <<native_columns, source, results, batch_size, columns>>
       ELSE /\ native_columns' = rs.columns
            /\ source' = rs.rows
            /\ results' = rs.rows
            /\ columns' = PostgresIteratorColumns(rs.columns)
            /\ batch_size' = bs
            /\ pc' = "iterating"
            /\ UNCHANGED <<stderr, exit_code>>
    /\ UNCHANGED count

BatchIterator ==
    /\ pc = "connected"
    /\ \E bs \in 0..MaxBatch, rs \in ResultSets(backend),
          outcome \in {"ok", "count_fails", "query_fails"}, e \in BackendErrors :
         IF backend = "mysql"
         THEN MysqlBatchIterator(bs, rs, outcome, e)
         ELSE PostgresBatchIterator(bs, rs, outcome, e)
    /\ UNCHANGED <<backend, options, returns>>
    /\ UNCHANGED schemaVars

----------------------------------------------------------------------------
(* The iterator: get_column_info, get_count, next *)

\* DataSourceBatchIterator::get_column_info
GetColumnInfo ==
    IF backend = "mysql" THEN MysqlColumnInfo(native_columns) ELSE PostgresColumnInfo(columns)

\* RowIter::size_hint().1: RowIter implements FallibleIterator::next alone, so
\* its size hint is the trait's default, (0, None)
RowIterSizeHintUpper == None

\* DataSourceBatchIterator::get_count
GetCount == IF backend = "mysql" THEN count ELSE RowIterSizeHintUpper

\* .by_ref().take(batch_size): the native rows one call pulls from the cursor
Take(n, rows) == SubSeq(rows, 1, Min(n, Len(rows)))

\* a variant that also discards the row following the batch
CursorAfterSkipsOne(n, rows) == SubSeq(rows, Min(n, Len(rows)) + 2, Len(rows))

\* a variant that reopens the result set once the cursor is exhausted
CursorAfterRewinds(n, rows) ==
    IF rows = <<>> THEN source ELSE SubSeq(rows, Min(n, Len(rows)) + 1, Len(rows))

\* the cursor after that call: the rows it pulled are gone from it
CursorAfter(n, rows) == SubSeq(rows, Min(n, Len(rows)) + 1, Len(rows))

\* a variant without the test for an empty batch
NextReturnAlwaysSome(rows) == Some(rows)

\* the end of next: None for an empty batch, Some(batch) otherwise
NextReturn(rows) == IF Len(rows) = 0 THEN None ELSE Some(rows)

\* .map(..).collect(): the canonical rows of one batch
ConvertBatch(b, column_info, row_columns, native_rows) ==
    [i \in 1..Len(native_rows) |->
        IF b = "mysql" THEN MysqlToRow(column_info, native_rows[i])
        ELSE PostgresToRow(row_columns, native_rows[i])]

\* MysqlSourceBatchIterator::next / PostgresSourceBatchIterator::next.
\* The cursor is over the one result set of the user query; reading past its
\* end yields no row.  A conversion that panics ends the process inside the
\* call, so that call returns nothing.
next ==
    /\ pc = "iterating"
    /\ Len(returns) < MaxRows + 2
    /\ LET ci == IF backend = "mysql" THEN MysqlColumnInfo(native_columns) ELSE <<>>
           rows == ConvertBatch(backend, ci, native_columns, Take(batch_size, results))
       IN  IF (backend = "mysql" /\ ColumnInfoPanics(ci))
              \/ (\E i \in 1..Len(rows) : RowPanics(rows[i]))
           THEN /\ ExitByPanic(<<"conversion">>)
                /\ UNCHANGED <<results, returns>>
           ELSE /\ results' = CursorAfter(batch_size, results)
                /\ returns' = Append(returns, NextReturn(rows))
                /\ UNCHANGED <<pc, stderr, exit_code>>
    /\ UNCHANGED <<backend, options, sent, native_columns, source, batch_size, count, columns>>
    /\ UNCHANGED schemaVars

\* every row next() has returned so far, batch after batch
Yielded == Flatten([i \in 1..Len(returns) |-> IF returns[i] = None THEN <<>> ELSE returns[i][1]])

----------------------------------------------------------------------------
(* The export of one query: connect, batch_iterator, next, next, ... *)

EmptyTree == [nodes |-> <<>>, root |-> None]

SchemaIdle ==
    /\ dbitems = EmptyTree
    /\ query = <<>>
    /\ is_regex = FALSE
    /\ once = None
    /\ twice = None
    /\ printed = <<>>
    /\ metadata = <<>>
    /\ command_query = None

ExportStart ==
    /\ backend \in {"mysql", "postgres"}
    /\ pc = "start"
    /\ exit_code = 0
    /\ stderr = <<>>
    /\ sent = <<>>
    /\ native_columns = <<>>
    /\ source = <<>>
    /\ results = <<>>
    /\ batch_size = 0
    /\ count = None
    /\ columns = <<>>
    /\ returns = <<>>

Init ==
    /\ ExportStart
    /\ options \in [init : {<<>>}, query : QueryTexts, count : BOOLEAN]
    /\ SchemaIdle

Next == Connect \/ BatchIterator \/ next

Spec == Init /\ [][Next]_vars

\* connect alone, over every list of init statements
InitConnect ==
    /\ ExportStart
    /\ options \in [init : SeqsUpTo(InitStatements, MaxInit), query : QueryTexts,
                     count : {FALSE}]
    /\ SchemaIdle

NextConnect == Connect

SpecConnect == InitConnect /\ [][NextConnect]_vars

----------------------------------------------------------------------------
(* Properties of the batch iterators *)

NoneReturned == \E k \in 1..Len(returns) : returns[k] = None

\* the canonical row the iterator's conversion gives for a native row
Converted(native_row) ==
    ConvertBatch(backend, MysqlColumnInfo(native_columns), native_columns, <<native_row>>)[1]

\* C1: every row of every batch next() returns has as many cells as
\* get_column_info() of the same iterator has entries.
C1_RowLengthEqualsColumnInfoLength ==
    \A i \in 1..Len(Yielded) : Len(Yielded[i]) = Len(GetColumnInfo)

\* C2: for a batch_size of at least 1, the batches returned so far,
\* concatenated, are the converted source rows in source order (no row
\* dropped, duplicated or reordered), and once next() has returned none they
\* are all of them.
C2_BatchesAreSourceRowsInOrder ==
    batch_size >= 1 =>
        /\ Len(Yielded) <= Len(source)
        /\ \A i \in 1..Len(Yielded) : Yielded[i] = Converted(source[i])
        /\ NoneReturned => Len(Yielded) = Len(source)

C2_Witness ==
    /\ batch_size = 1
    /\ Len(source) = 2
    /\ source[1] # source[2]
    /\ Len(returns) = 3
    /\ returns[3] = None
    /\ Len(Yielded) = 2

\* C3: every value next() returns is none or a batch that is non-empty and
\* holds at most batch_size rows.
C3_BatchNonEmptyAndBounded ==
    \A k \in 1..Len(returns) :
        returns[k] # None =>
            /\ Len(returns[k][1]) >= 1
            /\ Len(returns[k][1]) <= batch_size

C3_Witness ==
    /\ batch_size = 2
    /\ Len(source) = 2
    /\ Len(returns) = 2
    /\ returns[1] # None
    /\ Len(returns[1][1]) = 2
    /\ returns[2] = None

\* C4: once next() has returned none, every later call returns none.
C4_NoneIsAbsorbing ==
    \A i, j \in 1..Len(returns) :
        (i < j /\ returns[i] = None) => returns[j] = None

C4_Witness ==
    /\ Len(returns) >= 3
    /\ returns[1] # None
    /\ returns[Len(returns) - 1] = None
    /\ returns[Len(returns)] = None

\* C5: with row counting enabled, get_count() is the exact number of rows of
\* the user query, before the first next() and after any number of them.
C5_GetCountIsExactTotal ==
    (pc = "iterating" /\ options.count) => GetCount = Some(Len(source))

\* the user query was refused by the server in batch_iterator
QueryFailed ==
    /\ pc = "exited"
    /\ sent # <<>>
    /\ sent[Len(sent)] = options.query
    /\ stderr[Len(stderr)].detail \in BackendErrors

\* C6: when the user query fails in batch_iterator, a report holding the
\* literal query text is produced, the process ends with exit code 1, and
\* no batch is yielded.
C6_QueryFailureReportedWithQueryText ==
    QueryFailed =>
        /\ stderr[Len(stderr)].text = options.query
        /\ exit_code = ExitFailure
        /\ returns = <<>>

\* C7: connect executes the init statements in order; at the first that
\* fails it reports that statement's text with the backend's error and ends
\* the process with exit code 1, no later statement being executed.
C7_InitFailureReportedWithStatement ==
    /\ \E k \in 0..Len(options.init) : sent = SubSeq(options.init, 1, k)
    /\ pc = "connected" => sent = options.init
    /\ (pc = "exited" /\ sent # <<>>) =>
           /\ stderr = <<ReportQueryError(sent[Len(sent)], stderr[1].detail)>>
           /\ stderr[1].detail \in BackendErrors
           /\ exit_code = ExitFailure

HasUnsupportedColumn ==
    \E i \in 1..Len(native_columns) :
        IF backend = "mysql"
        THEN MysqlColumnType(native_columns[i].column_type, native_columns[i].unsigned)
                = Unsupported
        ELSE PostgresColumnType(native_columns[i].kind, native_columns[i].type_name)
                = Unsupported

\* a native row whose conversion fails: a column without a canonical type,
\* or a byte-valued cell that is not valid UTF-8
ConversionFails(native_row) ==
    \/ HasUnsupportedColumn
    \/ /\ backend = "mysql"
       /\ \E j \in 1..Len(native_row) :
             native_row[j].kind = "Bytes" /\ ~IsUtf8(native_row[j].p)

\* C8: a value-conversion failure aborts the export: no returned batch
\* holds the offending row (with a substituted, untyped or skipped cell) or
\* any row after it.
C8_ConversionFailureAborts ==
    /\ Len(Yielded) <= Len(source)
    /\ \A i \in 1..Len(source) :
          ConversionFails(source[i]) => Len(Yielded) < i
    /\ \A i \in 1..Len(Yielded) :
          /\ Len(Yielded[i]) = Len(source[i])
          /\ \A j \in 1..Len(Yielded[i]) : Yielded[i][j].tag \in ValueTags

C8_Witness ==
    /\ backend = "mysql"
    /\ pc = "exited"
    /\ Len(source) = 2
    /\ ~ConversionFails(source[1])
    /\ ConversionFails(source[2])
    /\ ~HasUnsupportedColumn
    /\ Len(Yielded) = 1

\* C9: a MySQL time value whose negative flag is set is rejected: no
\* returned row is the conversion of a native row holding such a value.
C9_NegativeTimeRejected ==
    \A i \in 1..Len(Yielded) :
        \A j \in 1..Len(source[i]) :
            ~(backend = "mysql" /\ source[i][j].kind = "Time" /\ source[i][j].p[1] = 1)

----------------------------------------------------------------------------
(* The schema tree: DBItem, DBItems(id_tree::Tree<DBItem>) *)

\* a tree is an arena: nodes[i] is the node with NodeId i; a name is a
\* sequence of character codes

MaxNodes == 4

TreeNode(data, parent, children) == [data |-> data, parent |-> parent, children |-> children]

RECURSIVE Reverse(_)
Reverse(s) == IF s = <<>> THEN <<>> ELSE Append(Reverse(Tail(s)), Head(s))

\* Tree::insert(Node::new(data), InsertBehavior::AsRoot): a former root
\* becomes the only child of the new one
InsertAsRoot(t, data) ==
    LET id == Len(t.nodes) + 1
    IN  IF t.root = None
        THEN [nodes |-> Append(t.nodes, TreeNode(data, None, <<>>)), root |-> Some(id)]
        ELSE [nodes |-> Append([t.nodes EXCEPT ![t.root[1]].parent = Some(id)],
                               TreeNode(data, None, <<t.root[1]>>)),
              root |-> Some(id)]

\* a variant that makes the new node the first child of parent
InsertUnderNodeFirst(t, data, parent) ==
    LET id == Len(t.nodes) + 1
    IN  [nodes |-> Append([t.nodes EXCEPT ![parent].children = <<id>> \o @],
                          TreeNode(data, Some(parent), <<>>)),
         root |-> t.root]

\* Tree::insert(Node::new(data), InsertBehavior::UnderNode(parent)): the new
\* node becomes the last child of parent
InsertUnderNode(t, data, parent) ==
    LET id == Len(t.nodes) + 1
    IN  [nodes |-> Append([t.nodes EXCEPT ![parent].children = Append(@, id)],
                          TreeNode(data, Some(parent), <<>>)),
         root |-> t.root]

\* Tree::traverse_pre_order_ids
RECURSIVE PreOrderIds(_, _)
PreOrderIds(t, id) ==
    <<id>> \o Flatten([k \in 1..Len(t.nodes[id].children) |->
                          PreOrderIds(t, t.nodes[id].children[k])])

\* Tree::traverse_post_order_ids
RECURSIVE PostOrderIds(_, _)
PostOrderIds(t, id) ==
    Flatten([k \in 1..Len(t.nodes[id].children) |->
                PostOrderIds(t, t.nodes[id].children[k])]) \o <<id>>

\* Tree::ancestor_ids: the parent first, the root last
RECURSIVE AncestorIds(_, _)
AncestorIds(t, id) ==
    IF t.nodes[id].parent = None THEN <<>>
    ELSE <<t.nodes[id].parent[1]>> \o AncestorIds(t, t.nodes[id].parent[1])

\* str::to_lowercase, on the ASCII letters
LowerChar(c) == IF c >= 65 /\ c <= 90 THEN c + 32 ELSE c

ToLowercase(str) == [i \in 1..Len(str) |-> LowerChar(str[i])]

\* str::contains
Contains(str, pat) ==
    \E i \in 0..(Len(str) - Len(pat)) : SubSeq(str, i + 1, i + Len(pat)) = pat

\* Regex::is_match for a case-insensitive pattern made of literal
\* characters, '.' (46), '^' (94) and '$' (36)
RECURSIVE RegexMatchHere(_, _, _)
RegexMatchHere(re, str, pos) ==
    IF re = <<>> THEN TRUE
    ELSE IF Head(re) = 94 THEN pos = 1 /\ RegexMatchHere(Tail(re), str, pos)
    ELSE IF Head(re) = 36 THEN pos = Len(str) + 1 /\ RegexMatchHere(Tail(re), str, pos)
    ELSE /\ pos <= Len(str)
         /\ IF Head(re) = 46 THEN str[pos] # 10
            ELSE LowerChar(Head(re)) = LowerChar(str[pos])
         /\ RegexMatchHere(Tail(re), str, pos + 1)

RegexIsMatch(re, str) == \E pos \in 1..(Len(str) + 1) : RegexMatchHere(re, str, pos)

\* DBItem::matches
Matches(name, q, re) ==
    IF re THEN RegexIsMatch(q, name) ELSE Contains(ToLowercase(name), q)

\* a variant without the node_map.contains_key test
InsertCopyUnchecked(t, acc, id) ==
    LET node == t.nodes[id]
        new_id == Len(acc.tree.nodes) + 1
    IN  IF node.parent = None
        THEN [acc EXCEPT !.tree = InsertAsRoot(acc.tree, node.data),
                         !.node_map[id] = new_id]
        ELSE IF acc.node_map[node.parent[1]] = 0
        THEN [acc EXCEPT !.panicked = TRUE]
        ELSE [acc EXCEPT !.tree = InsertUnderNode(acc.tree, node.data,
                                                  acc.node_map[node.parent[1]]),
                         !.node_map[id] = new_id]

\* subtree_matching_query, one insertion: the copy of source node id goes
\* into the new tree unless node_map already holds it
InsertCopy(t, acc, id) ==
    IF acc.node_map[id] # 0 THEN acc
    ELSE LET node == t.nodes[id]
             new_id == Len(acc.tree.nodes) + 1
         IN  IF node.parent = None
             THEN [acc EXCEPT !.tree = InsertAsRoot(acc.tree, node.data),
                              !.node_map[id] = new_id]
             ELSE IF acc.node_map[node.parent[1]] = 0
             THEN [acc EXCEPT !.panicked = TRUE]
             ELSE [acc EXCEPT !.tree = InsertUnderNode(acc.tree, node.data,
                                                       acc.node_map[node.parent[1]]),
                              !.node_map[id] = new_id]

RECURSIVE InsertCopies(_, _, _)
InsertCopies(t, acc, ids) ==
    IF ids = <<>> THEN acc ELSE InsertCopies(t, InsertCopy(t, acc, Head(ids)), Tail(ids))

\* subtree_matching_query, the body of its loop for one node
VisitNode(t, acc, id, q, re) ==
    IF Matches(t.nodes[id].data, q, re)
    THEN InsertCopy(t, InsertCopies(t, acc, Reverse(AncestorIds(t, id))), id)
    ELSE acc

RECURSIVE VisitNodes(_, _, _, _, _)
VisitNodes(t, acc, ids, q, re) ==
    IF ids = <<>> THEN acc
    ELSE VisitNodes(t, VisitNode(t, acc, Head(ids), q, re), Tail(ids), q, re)

\* a variant that visits the nodes in the reverse of post-order
VisitOrderReversed(t) == Reverse(PostOrderIds(t, t.root[1]))

\* the order in which subtree_matching_query visits the nodes
VisitOrder(t) == PostOrderIds(t, t.root[1])

\* DBItems::subtree_matching_query: the new tree, the node_map, and whether
\* an unwrap() of a node_map lookup panicked
SubtreeRun(t, q, re) ==
    LET start == [tree |-> EmptyTree,
                  node_map |-> [i \in 1..Len(t.nodes) |-> 0],
                  panicked |-> FALSE]
    IN  IF t.root = None THEN start ELSE VisitNodes(t, start, VisitOrder(t), q, re)

\* DBItems::subtree_matching_query: the tree it returns
SubtreeMatchingQuery(t, q, re) == SubtreeRun(t, q, re).tree

\* the spaces of one indentation level
IndentWidth == 4

\* a variant that indents one level too many
PrintLineOneLevelMore(name, indentation_level) ==
    [i \in 1..((indentation_level + 1) * IndentWidth) |-> 32] \o name

\* DBItem::print: the line written for a name at an indentation level
PrintLine(name, indentation_level) ==
    [i \in 1..(indentation_level * IndentWidth) |-> 32] \o name

\* DBItems::print: the lines written, in order
PrintTree(t) ==
    IF t.root = None THEN <<>>
    ELSE LET ids == PreOrderIds(t, t.root[1])
             line(id) == IF t.nodes[id].parent = None THEN <<>>
                         ELSE <<PrintLine(t.nodes[id].data, Len(AncestorIds(t, id)) - 1)>>
         IN  Flatten([k \in 1..Len(ids) |-> line(ids[k])])

\* the shape of a tree, whatever its NodeIds: its nodes in pre-order, each
\* with its depth and its name
Shape(t) ==
    IF t.root = None THEN <<>>
    ELSE LET ids == PreOrderIds(t, t.root[1])
         IN  [k \in 1..Len(ids) |-> <<Len(AncestorIds(t, ids[k])), t.nodes[ids[k]].data>>]

----------------------------------------------------------------------------
(* The trees and queries the model draws from *)

NodeNames == {<<>>, <<97>>, <<65, 98>>}

SearchQueries ==
    {<<>>, <<97>>, <<98>>, <<65>>, <<97, 98>>, <<46, 98>>, <<94, 97>>, <<98, 36>>}

\* the tree with n nodes in which node i > 1 hangs under parent[i], children
\* in the order of their ids
TreeOf(n, parent, names) ==
    [nodes |-> [i \in 1..n |->
                  TreeNode(names[i],
                           IF i = 1 THEN None ELSE Some(parent[i]),
                           LET kids == {j \in 2..n : parent[j] = i}
                               RECURSIVE Sorted(_)
                               Sorted(S) == IF S = {} THEN <<>>
                                            ELSE LET m == CHOOSE x \in S : \A y \in S : x <= y
                                                 IN  <<m>> \o Sorted(S \ {m})
                           IN  Sorted(kids))],
     root |-> Some(1)]

Trees ==
    {EmptyTree} \cup
    UNION {{TreeOf(n, parent, names) :
                parent \in {f \in [1..n -> 0..n] : f[1] = 0 /\ \A i \in 2..n : f[i] >= 1 /\ f[i] < i},
                names \in [1..n -> NodeNames]} : n \in 1..MaxNodes}

----------------------------------------------------------------------------
(* subtree_matching_query and print on an arbitrary tree *)

ExportIdle ==
    /\ backend = "mysql"
    /\ options = [init |-> <<>>, query |-> <<>>, count |-> FALSE]
    /\ exit_code = 0
    /\ stderr = <<>>
    /\ sent = <<>>
    /\ native_columns = <<>>
    /\ source = <<>>
    /\ results = <<>>
    /\ batch_size = 0
    /\ count = None
    /\ columns = <<>>
    /\ returns = <<>>

InitTree ==
    /\ ExportIdle
    /\ pc = "tree"
    /\ dbitems \in Trees
    /\ query \in SearchQueries
    /\ is_regex \in BOOLEAN
    /\ once = None
    /\ twice = None
    /\ printed = <<>>
    /\ metadata = <<>>
    /\ command_query = None

\* dbitems.subtree_matching_query(query, regex)
Filter ==
    /\ pc = "tree"
    /\ IF SubtreeRun(dbitems, query, is_regex).panicked
       THEN /\ ExitByPanic(<<"unwrap">>)
            /\ UNCHANGED once
       ELSE /\ once' = Some(SubtreeMatchingQuery(dbitems, query, is_regex))
            /\ pc' = "filtered"
            /\ UNCHANGED <<stderr, exit_code>>
    /\ UNCHANGED <<dbitems, query, is_regex, twice, printed, metadata, command_query>>
    /\ UNCHANGED <<backend, options, sent, native_columns, source, results, batch_size,
                   count, columns, returns>>

\* subtree_matching_query(query, regex) on the tree it returned
FilterAgain ==
    /\ pc = "filtered"
    /\ IF SubtreeRun(once[1], query, is_regex).panicked
       THEN /\ ExitByPanic(<<"unwrap">>)
            /\ UNCHANGED twice
       ELSE /\ twice' = Some(SubtreeMatchingQuery(once[1], query, is_regex))
            /\ pc' = "refiltered"
            /\ UNCHANGED <<stderr, exit_code>>
    /\ UNCHANGED <<dbitems, query, is_regex, once, printed, metadata, command_query>>
    /\ UNCHANGED <<backend, options, sent, native_columns, source, results, batch_size,
                   count, columns, returns>>

\* print() of the tree at hand: the filtered one if there is one
PrintItems ==
    /\ pc \in {"tree", "filtered"}
    /\ printed' = PrintTree(IF pc = "tree" THEN dbitems ELSE once[1])
    /\ pc' = "printed"
    /\ UNCHANGED <<dbitems, query, is_regex, once, twice, metadata, command_query>>
    /\ UNCHANGED exportVars

NextTree == Filter \/ FilterAgain \/ PrintItems

SpecTree == InitTree /\ [][NextTree]_vars

\* C10: subtree_matching_query is idempotent: applied to its own result
\* with the same query and mode, it returns a tree of the same shape, node
\* names and sibling order.
C10_SubtreeMatchingQueryIdempotent ==
    pc = "refiltered" => Shape(twice[1]) = Shape(once[1])

C10_Witness ==
    /\ pc = "refiltered"
    /\ Len(dbitems.nodes) = MaxNodes
    /\ Len(once[1].nodes) >= 3
    /\ Len(once[1].nodes) < Len(dbitems.nodes)
    /\ \E i \in 1..Len(once[1].nodes) : ~Matches(once[1].nodes[i].data, query, is_regex)

\* every node of dbitems matches the query
AllMatch == \A i \in 1..Len(dbitems.nodes) : Matches(dbitems.nodes[i].data, query, is_regex)

\* C11: when the predicate matches every node, subtree_matching_query
\* returns a tree isomorphic to the source tree: as many nodes, the same
\* names, the same parent/child relation and the same sibling order.
C11_AllMatchingGivesIsomorphicTree ==
    (pc = "filtered" /\ AllMatch) =>
        /\ Len(once[1].nodes) = Len(dbitems.nodes)
        /\ Shape(once[1]) = Shape(dbitems)

C11_Witness ==
    /\ pc = "filtered"
    /\ AllMatch
    /\ query # <<>>
    /\ Len(dbitems.nodes) = MaxNodes
    /\ \E i \in 1..Len(dbitems.nodes) : Len(dbitems.nodes[i].children) >= 2
    /\ \E i, j \in 1..Len(dbitems.nodes) : dbitems.nodes[i].data # dbitems.nodes[j].data

\* a source node that matches, or has a descendant that matches
Kept(t, id, q, re) ==
    \/ Matches(t.nodes[id].data, q, re)
    \/ \E d \in 1..Len(t.nodes) :
          /\ Matches(t.nodes[d].data, q, re)
          /\ \E k \in 1..Len(AncestorIds(t, d)) : AncestorIds(t, d)[k] = id

RECURSIVE KeptIds(_, _, _, _)
KeptIds(t, ids, q, re) ==
    IF ids = <<>> THEN <<>>
    ELSE (IF Kept(t, Head(ids), q, re) THEN <<Head(ids)>> ELSE <<>>)
         \o KeptIds(t, Tail(ids), q, re)

\* the shape of the subtree of t induced by the matching nodes and their
\* ancestors
InducedShape(t, q, re) ==
    IF t.root = None THEN <<>>
    ELSE LET ids == KeptIds(t, PreOrderIds(t, t.root[1]), q, re)
         IN  [k \in 1..Len(ids) |-> <<Len(AncestorIds(t, ids[k])), t.nodes[ids[k]].data>>]

\* C12: the tree subtree_matching_query returns is the subtree induced by
\* the matching nodes and their ancestors: a source node has a copy iff it
\* matches or has a matching descendant, each such node is copied once, a
\* copy hangs under the copy of its source parent, siblings in source order.
C12_ResultIsInducedSubtree ==
    pc = "filtered" =>
        /\ Shape(once[1]) = InducedShape(dbitems, query, is_regex)
        /\ Len(once[1].nodes) = Len(Shape(once[1]))
        /\ LET node_map == SubtreeRun(dbitems, query, is_regex).node_map
           IN  \A i \in 1..Len(dbitems.nodes) :
                 /\ (node_map[i] # 0) = Kept(dbitems, i, query, is_regex)
                 /\ \A j \in 1..Len(dbitems.nodes) :
                       (i # j /\ node_map[i] # 0) => node_map[i] # node_map[j]
                 /\ (node_map[i] # 0 /\ dbitems.nodes[i].parent # None) =>
                       once[1].nodes[node_map[i]].parent
                           = Some(node_map[dbitems.nodes[i].parent[1]])

C12_Witness ==
    /\ pc = "filtered"
    /\ Len(dbitems.nodes) = MaxNodes
    /\ Len(once[1].nodes) = 3
    /\ \E i \in 1..Len(once[1].nodes) : Len(once[1].nodes[i].children) = 2
    /\ \E i \in 1..Len(once[1].nodes) : ~Matches(once[1].nodes[i].data, query, is_regex)

\* the tree print() was called on
PrintedTree == IF once = None THEN dbitems ELSE once[1]

\* the shape's entries below the root
RECURSIVE BelowRoot(_)
BelowRoot(shape) ==
    IF shape = <<>> THEN <<>>
    ELSE (IF Head(shape)[1] = 0 THEN <<>> ELSE <<Head(shape)>>) \o BelowRoot(Tail(shape))

\* C13: print() writes one line per non-root node and none for the root, in
\* pre-order, each line the node's name after 4 * (number of ancestors - 1)
\* spaces; an empty tree prints nothing.
C13_PrintLinesPreOrderIndented ==
    pc = "printed" =>
        LET below == BelowRoot(Shape(PrintedTree))
        IN  /\ Len(printed) = Len(below)
            /\ PrintedTree.root # None => Len(printed) = Len(PrintedTree.nodes) - 1
            /\ PrintedTree.root = None => printed = <<>>
            /\ \A k \in 1..Len(below) :
                  /\ Len(printed[k]) = 4 * (below[k][1] - 1) + Len(below[k][2])
                  /\ \A c \in 1..Len(printed[k]) :
                        printed[k][c] = IF c <= 4 * (below[k][1] - 1) THEN 32
                                        ELSE below[k][2][c - 4 * (below[k][1] - 1)]

C13_Witness ==
    /\ pc = "printed"
    /\ once = None
    /\ Len(printed) = 3
    /\ printed[1] = <<97>>
    /\ printed[2] = <<32, 32, 32, 32, 65, 98>>
    /\ printed[3] = <<32, 32, 32, 32, 32, 32, 32, 32, 97>>

----------------------------------------------------------------------------
(* Further properties of the batch iterators *)

\* C14: batch_iterator sends the wrapped count query if and only if row
\* counting was requested, and before the user query; without the flag the
\* user query is the only statement sent.
C14_CountQueryIffRequestedThenUserQuery ==
    pc = "iterating" =>
        sent = (IF options.count THEN <<CountQuery(options.query)>> ELSE <<>>)
               \o <<options.query>>

\* C15: a MySQL date/time wire value at column position i becomes the Value
\* variant of the ColumnType computed for column i: Date a date, DateTime a
\* date-time, Time a time, Timestamp a timestamp.
C15_DateTimeValueFollowsColumnType ==
    \A i \in 1..Len(Yielded) :
        \A j \in 1..Len(Yielded[i]) :
            (backend = "mysql" /\ source[i][j].kind \in {"Date", "Time"}) =>
                /\ GetColumnInfo[j].data_type \in {"Date", "DateTime", "Time", "Timestamp"}
                /\ Yielded[i][j].tag = GetColumnInfo[j].data_type

\* C16: next() returns none only when the cursor is exhausted, whatever the
\* batch_size (0 included).
C16_NoneOnlyWhenExhausted ==
    NoneReturned => results = <<>>

\* C20: a NULL cell of a native row becomes the absent Value at the same
\* position of the canonical row, the row keeping its length and the export
\* going on.
C20_NullBecomesAbsentValue ==
    ~HasUnsupportedColumn =>
        \A i \in 1..Len(source) :
            /\ Len(Converted(source[i])) = Len(source[i])
            /\ \A j \in 1..Len(source[i]) :
                  source[i][j].kind = "NULL" => Converted(source[i])[j] = Val("None", <<>>)

----------------------------------------------------------------------------
(* The schema command on a sqlite database: build, filter, print *)

MaxMeta == 3

\* one row of the metadata query: row[0] is the table name, row[1] the
\* column name
MetaRow(table_name, field_name) == [table_name |-> table_name, field_name |-> field_name]

TableNames == {<<85>>, <<116>>}

FieldNames == {<<97>>, <<65, 98>>}

MetaRows == {MetaRow(t, f) : t \in TableNames, f \in FieldNames}

\* what the user may type after --query
TypedQueries == SearchQueries \cup {<<84>>, <<85>>}

\* the tree before the first row: the root alone, no table open
BuildStart ==
    [tree |-> InsertAsRoot(EmptyTree, <<>>), root_node |-> 1, current_parent |-> None]

\* a variant that opens a new table node for every row
BuildRowAlwaysNewTable(acc, row) ==
    LET table_id == Len(acc.tree.nodes) + 1
        with_table == InsertUnderNode(acc.tree, row.table_name, acc.root_node)
    IN  [acc EXCEPT !.tree = InsertUnderNode(with_table, row.field_name, table_id),
                    !.current_parent = Some(table_id)]

\* a variant that looks the table node up by name among the root's children
BuildRowFindsTable(acc, row) ==
    LET tables == acc.tree.nodes[acc.root_node].children
        found == {k \in 1..Len(tables) : acc.tree.nodes[tables[k]].data = row.table_name}
        table_id == IF found = {} THEN Len(acc.tree.nodes) + 1
                    ELSE tables[CHOOSE k \in found : TRUE]
        with_table == IF found = {}
                      THEN InsertUnderNode(acc.tree, row.table_name, acc.root_node)
                      ELSE acc.tree
    IN  [acc EXCEPT !.tree = InsertUnderNode(with_table, row.field_name, table_id),
                    !.current_parent = Some(table_id)]

\* schema, the callback of conn.iterate for one row
BuildRow(acc, row) ==
    LET opens == \/ acc.current_parent = None
                 \/ row.table_name # acc.tree.nodes[acc.current_parent[1]].data
        table_id == IF opens THEN Len(acc.tree.nodes) + 1 ELSE acc.current_parent[1]
        with_table == IF opens
                      THEN InsertUnderNode(acc.tree, row.table_name, acc.root_node)
                      ELSE acc.tree
    IN  [acc EXCEPT !.tree = InsertUnderNode(with_table, row.field_name, table_id),
                    !.current_parent = Some(table_id)]

RECURSIVE BuildRows(_, _)
BuildRows(acc, rows) ==
    IF rows = <<>> THEN acc ELSE BuildRows(BuildRow(acc, Head(rows)), Tail(rows))

\* schema, sqlite branch: the tree built from the rows of the metadata query
BuildTree(rows) == BuildRows(BuildStart, rows).tree

\* a variant that hands the query on as typed
NormalizeQueryAsTyped(q) == q

\* schema: query.to_lowercase()
NormalizeQuery(q) == ToLowercase(q)

InitSchema ==
    /\ ExportIdle
    /\ pc = "schema"
    /\ metadata \in SeqsUpTo(MetaRows, MaxMeta)
    /\ command_query \in {None} \cup {Some(q) : q \in TypedQueries}
    /\ is_regex \in BOOLEAN
    /\ dbitems = EmptyTree
    /\ query = <<>>
    /\ once = None
    /\ twice = None
    /\ printed = <<>>

\* schema, sqlite branch: build the tree, filter it if a query was given,
\* print it
Schema ==
    /\ pc = "schema"
    /\ LET built == BuildTree(metadata)
           q == IF command_query = None THEN <<>> ELSE NormalizeQuery(command_query[1])
           run == SubtreeRun(built, q, is_regex)
       IN  /\ dbitems' = built
           /\ query' = q
           /\ IF command_query = None
              THEN /\ once' = None
                   /\ printed' = PrintTree(built)
                   /\ pc' = "printed"
                   /\ UNCHANGED <<stderr, exit_code>>
              ELSE IF run.panicked
              THEN /\ ExitByPanic(<<"unwrap">>)
                   /\ UNCHANGED <<once, printed>>
              ELSE /\ once' = Some(run.tree)
                   /\ printed' = PrintTree(run.tree)
                   /\ pc' = "printed"
                   /\ UNCHANGED <<stderr, exit_code>>
    /\ UNCHANGED <<is_regex, twice, metadata, command_query>>
    /\ UNCHANGED <<backend, options, sent, native_columns, source, results, batch_size,
                   count, columns, returns>>

NextSchema == Schema

SpecSchema == InitSchema /\ [][NextSchema]_vars

----------------------------------------------------------------------------
(* Properties of the schema command *)

RECURSIVE LexLeq(_, _)
LexLeq(a, b) ==
    IF a = <<>> THEN TRUE
    ELSE IF b = <<>> THEN FALSE
    ELSE IF Head(a) # Head(b) THEN Head(a) < Head(b)
    ELSE LexLeq(Tail(a), Tail(b))

\* the order the metadata query asks for: ORDER BY m.name
SortedByTable(rows) ==
    \A i \in 1..(Len(rows) - 1) : LexLeq(rows[i].table_name, rows[i + 1].table_name)

\* rows of one table name are separated by a row of another table
Separated(rows) ==
    \E i, j, k \in 1..Len(rows) :
        /\ i < j /\ j < k
        /\ rows[i].table_name = rows[k].table_name
        /\ rows[j].table_name # rows[i].table_name

RECURSIVE DistinctInOrder(_, _)
DistinctInOrder(rows, seen) ==
    IF rows = <<>> THEN <<>>
    ELSE IF Head(rows).table_name \in seen THEN DistinctInOrder(Tail(rows), seen)
    ELSE <<Head(rows).table_name>>
             \o DistinctInOrder(Tail(rows), seen \cup {Head(rows).table_name})

RECURSIVE FieldsOf(_, _)
FieldsOf(rows, table_name) ==
    IF rows = <<>> THEN <<>>
    ELSE (IF Head(rows).table_name = table_name THEN <<Head(rows).field_name>> ELSE <<>>)
             \o FieldsOf(Tail(rows), table_name)

\* the maximal runs of consecutive rows with one table name
RECURSIVE Runs(_)
Runs(rows) ==
    IF rows = <<>> THEN <<>>
    ELSE LET rest == Runs(Tail(rows))
             r == Head(rows)
         IN  IF rest # <<>> /\ rest[1].table_name = r.table_name
             THEN <<[table_name |-> r.table_name,
                     fields |-> <<r.field_name>> \o rest[1].fields]>> \o Tail(rest)
             ELSE <<[table_name |-> r.table_name, fields |-> <<r.field_name>>]>> \o rest

NamesOf(t, ids) == [k \in 1..Len(ids) |-> t.nodes[ids[k]].data]

\* the table nodes: the children of the root of the built tree
TableNodes == dbitems.nodes[dbitems.root[1]].children

\* how often node id is listed as a child
TimesListed(t, id) ==
    Cardinality({<<p, k>> \in (1..Len(t.nodes)) \X (1..Len(t.nodes)) :
                    k <= Len(t.nodes[p].children) /\ t.nodes[p].children[k] = id})

\* C17: built from metadata sorted by table name, the tree has under the
\* root exactly one table node per distinct table name, in input order;
\* the columns of every table are the children of its node, in input
\* order; no node lies deeper than two levels below the root, and every
\* node but the root has exactly one parent.
C17_SortedMetadataGivesOneNodePerTable ==
    (pc = "printed" /\ SortedByTable(metadata)) =>
        /\ dbitems.root = Some(1)
        /\ dbitems.nodes[1].data = <<>>
        /\ NamesOf(dbitems, TableNodes) = DistinctInOrder(metadata, {})
        /\ \A k \in 1..Len(TableNodes) :
              NamesOf(dbitems, dbitems.nodes[TableNodes[k]].children)
                  = FieldsOf(metadata, dbitems.nodes[TableNodes[k]].data)
        /\ Len(dbitems.nodes) = 1 + Len(TableNodes) + Len(metadata)
        /\ \A i \in 1..Len(dbitems.nodes) :
              /\ Len(AncestorIds(dbitems, i)) <= 2
              /\ i # 1 => /\ dbitems.nodes[i].parent # None
                          /\ TimesListed(dbitems, i) = 1
                          /\ \E k \in 1..Len(dbitems.nodes[dbitems.nodes[i].parent[1]].children) :
                                dbitems.nodes[dbitems.nodes[i].parent[1]].children[k] = i

C17_Witness ==
    /\ pc = "printed"
    /\ SortedByTable(metadata)
    /\ Len(metadata) = 3
    /\ Len(TableNodes) = 2
    /\ Len(dbitems.nodes[TableNodes[1]].children) = 2

\* C18: when rows of one table name are separated by rows of another
\* table, the build reports nothing and goes on to print; the tree has
\* one table node per contiguous run, so more than one with the repeated
\* name, and each holds exactly the columns of its own run.
C18_SeparatedRowsGiveDuplicateTableNodes ==
    (pc # "schema" /\ Separated(metadata)) =>
        /\ pc = "printed"
        /\ exit_code = 0
        /\ stderr = <<>>
        /\ \E a, b \in 1..Len(TableNodes) :
              a # b /\ dbitems.nodes[TableNodes[a]].data = dbitems.nodes[TableNodes[b]].data
        /\ Len(TableNodes) = Len(Runs(metadata))
        /\ \A k \in 1..Len(TableNodes) :
              /\ dbitems.nodes[TableNodes[k]].data = Runs(metadata)[k].table_name
              /\ NamesOf(dbitems, dbitems.nodes[TableNodes[k]].children) = Runs(metadata)[k].fields

C18_Witness ==
    /\ pc = "printed"
    /\ command_query = None
    /\ Separated(metadata)
    /\ Len(TableNodes) = 3
    /\ dbitems.nodes[TableNodes[1]].data = dbitems.nodes[TableNodes[3]].data
    /\ Len(printed) = 6

\* the nodes of t whose lowercased name contains the lowercased q
ContainingIgnoringCase(t, q) ==
    {i \in 1..Len(t.nodes) : Contains(ToLowercase(t.nodes[i].data), ToLowercase(q))}

\* C19: without the regex flag, a node of the tree matches the query
\* handed to subtree_matching_query exactly when its lowercased name
\* contains the lowercased query the user typed, whatever its letter
\* case; all such nodes are in the filtered tree.
C19_PlainMatchIsCaseInsensitiveContainment ==
    (pc = "printed" /\ command_query # None /\ ~is_regex) =>
        /\ \A i \in 1..Len(dbitems.nodes) :
              Matches(dbitems.nodes[i].data, query, FALSE)
                  <=> i \in ContainingIgnoringCase(dbitems, command_query[1])
        /\ Cardinality(ContainingIgnoringCase(once[1], command_query[1]))
              = Cardinality(ContainingIgnoringCase(dbitems, command_query[1]))
        /\ (ContainingIgnoringCase(dbitems, command_query[1]) = {}) <=> (once[1] = EmptyTree)

C19_Witness ==
    /\ pc = "printed"
    /\ ~is_regex
    /\ command_query = Some(<<84>>)
    /\ Len(dbitems.nodes) = 5
    /\ Len(once[1].nodes) = 2
    /\ once[1].nodes[2].data = <<116>>

----------------------------------------------------------------------------
(* The Value variant against the reported ColumnType *)

\* C21: every cell of every row the MySQL iterator yielded that is not the
\* absent Value carries the Value variant named like the ColumnType that
\* get_column_info() reports for its column position.
C21_ValueVariantMirrorsColumnType ==
    backend = "mysql" =>
        \A i \in 1..Len(Yielded) :
            \A j \in 1..Len(Yielded[i]) :
                Yielded[i][j].tag # "None" =>
                    /\ j <= Len(GetColumnInfo)
                    /\ Yielded[i][j].tag = GetColumnInfo[j].data_type

====
